---- MODULE Spec2Model ----
(***************************************************************************)
(* Model of scripts/pull_hf_daily.py: the listing harvest (sequential),    *)
(* the thread-pool download stage and the persistence of the listing; and  *)
(* of the loop of scripts/summarize_papers.py.                             *)
(*                                                                         *)
(* A run of pull_hf_daily is one behaviour of Spec.  The listing page, the *)
(* detail pages and the outcome of every download are inputs of the run    *)
(* and are chosen nondeterministically at the request that reads them.     *)
(* ExtractSpec applies the identifier extraction to bounded links, and     *)
(* SumSpec is a run of main of summarize_papers.py.                        *)
(***************************************************************************)
EXTENDS Integers, Sequences, FiniteSets, TLC

(***************************************************************************)
(* Bounds of the model.                                                    *)
(***************************************************************************)
\* Largest number of <article> entries on the listing page.
MaxEntries == 3
\* Size of the worker pool.  The code passes max_workers=10
\* (pull_hf_daily.py:128); the model runs the same pool with a smaller size
\* so that more tasks are submitted than the pool has workers.
MaxWorkers == 2
\* Largest number of characters after the head of a link in ExtractSpec.
MaxTail == 4
\* Largest number of papers in the listing read by summarize_papers.py.
MaxPapers == 3

\* re.search found nothing (Python's None); a matched group is never empty.
NoMatch == <<>>

(***************************************************************************)
(* Links found on the listing page, as sequences of characters.            *)
(***************************************************************************)
Prefix == <<"/", "p", "a", "p", "e", "r", "s", "/">>
Id2401 == <<"2", "4", "0", "1", ".", "0", "0", "0", "0">>
\* /papers/2401.00001, /papers/2401.00002, /papers/2401.00003
LinkA  == Prefix \o Id2401 \o <<"1">>
LinkB  == Prefix \o Id2401 \o <<"2">>
LinkC  == Prefix \o Id2401 \o <<"3">>
\* /papers/trending: a link without an arXiv id
LinkN  == Prefix \o <<"t", "r", "e", "n", "d", "i", "n", "g">>
Links  == {LinkA, LinkB, LinkC, LinkN}

Digits == {"0", "1", "2", "3", "4", "5", "6", "7", "8", "9"}

(***************************************************************************)
(* re.search(r"/papers/(\d+\.\d+)", link): leftmost match, greedy digits.  *)
(***************************************************************************)
RECURSIVE DigitRunEnd(_, _)
\* The first position at or after j that holds no digit (Len(s)+1 at most).
DigitRunEnd(s, j) ==
    IF j <= Len(s) /\ s[j] \in Digits THEN DigitRunEnd(s, j + 1) ELSE j

HasPrefixAt(s, i) ==
    /\ i + Len(Prefix) - 1 <= Len(s)
    /\ SubSeq(s, i, i + Len(Prefix) - 1) = Prefix

\* the pattern without its "/papers/" part
MatchAt_NoPrefix(s, i) ==
    LET j  == i + Len(Prefix)
        e1 == DigitRunEnd(s, j)
        e2 == DigitRunEnd(s, e1 + 1)
    IN  /\ e1 > j
        /\ e1 <= Len(s)
        /\ s[e1] = "."
        /\ e2 > e1 + 1
MatchAt(s, i) ==
    LET j  == i + Len(Prefix)
        e1 == DigitRunEnd(s, j)
        e2 == DigitRunEnd(s, e1 + 1)
    IN  /\ HasPrefixAt(s, i)
        /\ e1 > j
        /\ e1 <= Len(s)
        /\ s[e1] = "."
        /\ e2 > e1 + 1

GroupAt(s, i) ==
    LET j  == i + Len(Prefix)
        e1 == DigitRunEnd(s, j)
        e2 == DigitRunEnd(s, e1 + 1)
    IN  SubSeq(s, j, e2 - 1)

\* arxiv_id_match.group(1), or NoMatch when re.search finds no match.
ExtractId(link) ==
    IF \E i \in 1..Len(link) : MatchAt(link, i)
    THEN LET i == CHOOSE k \in 1..Len(link) :
                     /\ MatchAt(link, k)
                     /\ \A m \in 1..(k - 1) : ~MatchAt(link, m)
         IN  GroupAt(link, i)
    ELSE NoMatch

\* f"https://arxiv.org/pdf/{arxiv_id}"
ArxivLink_NoId(arxiv_id) == <<"https://arxiv.org/pdf/">>
ArxivLink(arxiv_id) == <<"https://arxiv.org/pdf/">> \o arxiv_id
\* os.path.join(temp_pdf_dir, f"{arxiv_id}.pdf")
PdfPath(arxiv_id) == <<"temp_pdfs/">> \o arxiv_id \o <<".pdf">>
\* HF_BASE_URL + link
HfPaperUrl(link) == <<"https://huggingface.co">> \o link


(***************************************************************************)
(* Responses of the network and outcomes of a download.                    *)
(***************************************************************************)
\* An <article> of the listing: its first anchor's href, if it has an anchor.
Article(link) == [has_anchor |-> TRUE, href |-> link]
\* An <article> without an anchor: paper.a is None.
NoAnchor == [has_anchor |-> FALSE, href |-> <<>>]
Entries == {Article(l) : l \in Links} \cup {NoAnchor}

\* requests.get either returns a response with a status code or raises
\* (timeout, connection error); a raised request has no status.
Raise == [raised |-> TRUE, status |-> 0]
Response(status) == [raised |-> FALSE, status |-> status]
\* no request made yet
NoResponse == [raised |-> FALSE, status |-> -1]
ListingResponses == {Response(200), Response(500), Raise}

\* A detail response: its status (or Raise) and, for a 200, whether the
\* title heading and the abstract paragraph are in the page.
DetailResponses ==
    {[raised |-> FALSE, status |-> 200, has_title |-> t, has_abstract |-> a] :
        t \in BOOLEAN, a \in BOOLEAN}
    \cup {[raised |-> r, status |-> IF r THEN 0 ELSE 404,
           has_title |-> FALSE, has_abstract |-> FALSE] : r \in BOOLEAN}

\* What one call of download_pdf can run into.
DownloadOutcomes ==
    {"ok", "HTTPError", "ConnectionError", "Timeout", "IOError", "Exception"}

VARIABLES
    pc,                 \* position of the caller thread in pull_hf_daily
    response,           \* the response to the listing request of line 71
    today_papers_list,  \* the entries of the listing page, in document order
    idx,                \* the entry the for loop of line 88 is at
    papers,             \* the working list of records
    seen_ids,           \* arXiv ids of the records created so far
    detail,             \* the detail response of every entry that was requested
    harvested,          \* papers as it was when the downloads were submitted
    futures,            \* the futures of line 129, in submission order
    completed,          \* indices of futures in the order as_completed yielded them
    files,              \* paths under temp_pdfs that were opened for writing
    data_file,          \* data/<date>_papers.json: whether written, and its list
    \* the identifier extraction on its own (ExtractSpec)
    test_link,          \* the link re.search is applied to
    arxiv_id_match,     \* whether re.search was applied, and its group(1)
    \* main of summarize_papers.py (SumSpec)
    sum_pc,             \* position of main
    loaded_papers,      \* papers as read from data/<date>_papers.json
    paper_i,            \* the paper the for loop of line 109 is at
    summaries,          \* the list of line 108
    api_log,            \* the calls of summarize_paper and the sleeps, in order
    archive             \* what update_readme wrote: whether written, and the list

pullVars == <<pc, response, today_papers_list, idx, papers, seen_ids, detail,
              harvested, futures, completed, files, data_file>>
extractVars == <<test_link, arxiv_id_match>>
sumVars == <<sum_pc, loaded_papers, paper_i, summaries, api_log, archive>>
vars == <<pullVars, extractVars, sumVars>>

\* entries whose detail page was requested
Requested == DOMAIN detail

\* pull_hf_daily is not running, resp. has not started
PullInit ==
    /\ pc = "start"
    /\ response = NoResponse
    /\ today_papers_list = <<>>
    /\ idx = 1
    /\ papers = <<>>
    /\ seen_ids = {}
    /\ detail = <<>>
    /\ harvested = <<>>
    /\ futures = <<>>
    /\ completed = <<>>
    /\ files = {}
    /\ data_file = [written |-> FALSE, content |-> <<>>]

\* no extraction on its own is made
ExtractIdle ==
    /\ test_link = <<>>
    /\ arxiv_id_match = [searched |-> FALSE, group |-> NoMatch]

\* summarize_papers.py is not run
SumIdle ==
    /\ sum_pc = "idle"
    /\ loaded_papers = <<>>
    /\ paper_i = 1
    /\ summaries = <<>>
    /\ api_log = <<>>
    /\ archive = [written |-> FALSE, content |-> <<>>]

Init == PullInit /\ ExtractIdle /\ SumIdle

(***************************************************************************)
(* Lines 70-78: the listing request.                                       *)
(***************************************************************************)
Listings == UNION {[1..n -> Entries] : n \in 0..MaxEntries}

\* line 72: response.status_code != 200 returns from pull_hf_daily
ListingOk_Always(status) == TRUE
ListingOk(status) == status = 200

\* line 74: where the run goes when the listing is unavailable
ListingFailedNext_Persist == "persist"
ListingFailedNext == "returned"

FetchListing ==
    /\ pc = "start"
    /\ \E resp \in ListingResponses :
         /\ response' = resp
         /\ IF resp.raised
            THEN \* line 71: the exception of requests.get is not caught
                 /\ pc' = "crashed"
                 /\ UNCHANGED today_papers_list
            ELSE IF ~ListingOk(resp.status)
            THEN /\ pc' = ListingFailedNext
                 /\ UNCHANGED today_papers_list
            ELSE /\ \E l \in Listings : today_papers_list' = l
                 /\ pc' = "harvest"
    /\ UNCHANGED <<idx, papers, seen_ids, detail, harvested, futures,
                   completed, files, data_file>>
    /\ UNCHANGED <<extractVars, sumVars>>

(***************************************************************************)
(* Lines 88-126: one iteration of the loop over the listing entries.       *)
(***************************************************************************)
\* line 93: content.status_code != 200 skips the entry
DetailOk_Always(status) == TRUE
DetailOk(status) == status = 200

\* lines 89-92: nothing is tested between reading the link and requesting the
\* detail page
SkipBeforeFetch_Seen(link, seen) == ExtractId(link) \in seen
SkipBeforeFetch(link, seen) == FALSE

\* line 108: arxiv_id in seen_ids
IsDuplicate_Never(arxiv_id, seen) == FALSE
IsDuplicate(arxiv_id, seen) == arxiv_id \in seen

\* line 111: seen_ids.add(arxiv_id)
MarkSeen_Forget(seen, arxiv_id) == seen
MarkSeen(seen, arxiv_id) == seen \cup {arxiv_id}

\* lines 117-126: the record; title and abstract are those of the detail page
\* requested for listing entry `entry`.
Record(link, arxiv_id, entry) ==
    [ arxiv_id   |-> arxiv_id,
      arxiv_link |-> ArxivLink(arxiv_id),
      hf_link    |-> HfPaperUrl(link),
      pdf_path   |-> PdfPath(arxiv_id),
      entry      |-> entry ]

ProcessEntry ==
    /\ pc = "harvest"
    /\ idx <= Len(today_papers_list)
    /\ LET paper == today_papers_list[idx] IN
       IF ~paper.has_anchor
       THEN \* line 89: paper.a is None, AttributeError leaves pull_hf_daily
            /\ pc' = "crashed"
            /\ UNCHANGED <<idx, papers, seen_ids, detail>>
       ELSE IF SkipBeforeFetch(paper.href, seen_ids)
       THEN /\ idx' = idx + 1
            /\ UNCHANGED <<pc, papers, seen_ids, detail>>
       ELSE
         \E content \in DetailResponses :
            /\ detail' = [e \in Requested \cup {idx} |->
                              IF e = idx THEN content ELSE detail[e]]
            /\ IF content.raised
               THEN \* line 92: the exception of requests.get is not caught
                    /\ pc' = "crashed"
                    /\ UNCHANGED <<idx, papers, seen_ids>>
               ELSE IF ~DetailOk(content.status)
               THEN \* lines 93-95
                    /\ idx' = idx + 1
                    /\ UNCHANGED <<pc, papers, seen_ids>>
               ELSE IF ~content.has_title \/ ~content.has_abstract
               THEN \* lines 98-99: soup.find(...) is None, .text raises
                    /\ pc' = "crashed"
                    /\ UNCHANGED <<idx, papers, seen_ids>>
               ELSE LET arxiv_id == ExtractId(paper.href) IN
                    IF arxiv_id = NoMatch
                    THEN \* lines 103-105
                         /\ idx' = idx + 1
                         /\ UNCHANGED <<pc, papers, seen_ids>>
                    ELSE IF IsDuplicate(arxiv_id, seen_ids)
                    THEN \* lines 108-110
                         /\ idx' = idx + 1
                         /\ UNCHANGED <<pc, papers, seen_ids>>
                    ELSE \* lines 111-126
                         /\ seen_ids' = MarkSeen(seen_ids, arxiv_id)
                         /\ papers' = Append(papers, Record(paper.href, arxiv_id, idx))
                         /\ idx' = idx + 1
                         /\ UNCHANGED pc
    /\ UNCHANGED <<response, today_papers_list, harvested, futures, completed,
                   files, data_file>>
    /\ UNCHANGED <<extractVars, sumVars>>

\* line 88 exhausted: the caller enters the with block of line 128
EndHarvest ==
    /\ pc = "harvest"
    /\ idx > Len(today_papers_list)
    /\ pc' = "submit"
    /\ harvested' = papers
    /\ UNCHANGED <<response, today_papers_list, idx, papers, seen_ids, detail,
                   futures, completed, files, data_file>>
    /\ UNCHANGED <<extractVars, sumVars>>

(***************************************************************************)
(* Lines 27-60: download_pdf.  `outcome` is what the request and the write *)
(* run into; every exception is caught and mapped to (arxiv_link, False).  *)
(***************************************************************************)
download_pdf_NoCatchAll(arxiv_link, outcome) ==
    [ raised  |-> outcome = "Exception",
      link    |-> arxiv_link,
      success |-> outcome = "ok" ]
download_pdf(arxiv_link, outcome) ==
    [ raised  |-> FALSE,
      link    |-> arxiv_link,
      success |-> outcome = "ok" ]

\* lines 44-60: download_pdf makes one request and returns, whatever the
\* outcome; the task is then finished.
StateAfter_Retry(outcome) == IF outcome = "ok" THEN "finished" ELSE "pending"
StateAfter(outcome) == "finished"

\* lines 27-60: download_pdf has no access to the list of records
PapersAfterDownload_Prune(ps, result) ==
    IF result.success THEN ps
    ELSE SelectSeq(ps, LAMBDA paper : paper.arxiv_link # result.link)
PapersAfterDownload(ps, result) == ps

\* lines 47-48: the files download_pdf can leave behind.  The file is opened
\* only after raise_for_status; a failed write may leave a truncated file.
FilesAfter(fs, save_path, outcome) ==
    IF outcome = "ok" THEN {fs \cup {save_path}}
    ELSE IF outcome \in {"IOError", "Exception"} THEN {fs, fs \cup {save_path}}
    ELSE {fs}

(***************************************************************************)
(* Lines 128-136: the thread pool and the collection of the results.       *)
(***************************************************************************)
\* line 129: executor.submit(download_pdf, paper["arxiv_link"], paper["pdf_path"])
NewFuture(paper) ==
    [ arxiv_link |-> paper.arxiv_link,
      save_path  |-> paper.pdf_path,
      state      |-> "pending",
      attempts   |-> 0,
      result     |-> [raised |-> FALSE, link |-> paper.arxiv_link,
                      success |-> FALSE] ]

Running(fs) == {i \in 1..Len(fs) : fs[i].state = "running"}

\* line 128: ThreadPoolExecutor(max_workers=...) runs a queued task only on
\* a free worker
WorkerAvailable_Unbounded(fs) == TRUE
WorkerAvailable(fs) == Cardinality(Running(fs)) < MaxWorkers

\* line 130: as_completed yields a future once it is done ...
IsDone_Any(f) == TRUE
IsDone(f) == f.state = "finished"

\* ... and yields every future once
Yielded(i, done) == \E k \in 1..Len(done) : done[k] = i

\* line 135: papers = [paper for paper in papers if paper["arxiv_link"] != arxiv_link]
RECURSIVE SwapRemove(_, _)
SwapRemove(ps, arxiv_link) ==
    IF \E k \in 1..Len(ps) : ps[k].arxiv_link = arxiv_link
    THEN LET k == CHOOSE n \in 1..Len(ps) : ps[n].arxiv_link = arxiv_link
             n == Len(ps)
         IN  SwapRemove(SubSeq([ps EXCEPT ![k] = ps[n]], 1, n - 1), arxiv_link)
    ELSE ps
RemoveFailed_Keep(ps, arxiv_link) == ps
RemoveFailed(ps, arxiv_link) ==
    SelectSeq(ps, LAMBDA paper : paper.arxiv_link # arxiv_link)

Submit ==
    /\ pc = "submit"
    /\ Len(futures) < Len(papers)
    /\ futures' = Append(futures, NewFuture(papers[Len(futures) + 1]))
    /\ UNCHANGED <<pc, response, today_papers_list, idx, papers, seen_ids, detail,
                   harvested, completed, files, data_file>>
    /\ UNCHANGED <<extractVars, sumVars>>

\* line 130: the list of futures is complete, the caller starts to wait
AsCompleted ==
    /\ pc = "submit"
    /\ Len(futures) = Len(papers)
    /\ pc' = "collect"
    /\ UNCHANGED <<response, today_papers_list, idx, papers, seen_ids, detail,
                   harvested, futures, completed, files, data_file>>
    /\ UNCHANGED <<extractVars, sumVars>>

\* a worker thread takes the oldest queued task
WorkerStart(i) ==
    /\ futures[i].state = "pending"
    /\ \A j \in 1..(i - 1) : futures[j].state # "pending"
    /\ WorkerAvailable(futures)
    /\ futures' = [futures EXCEPT ![i].state = "running",
                                  ![i].attempts = @ + 1]
    /\ UNCHANGED <<pc, response, today_papers_list, idx, papers, seen_ids, detail,
                   harvested, completed, files, data_file>>
    /\ UNCHANGED <<extractVars, sumVars>>

\* a worker thread returns from download_pdf
WorkerFinish(i) ==
    /\ futures[i].state = "running"
    /\ \E outcome \in DownloadOutcomes :
         /\ futures' = [futures EXCEPT
                ![i].state = StateAfter(outcome),
                ![i].result = download_pdf(futures[i].arxiv_link, outcome)]
         /\ files' \in FilesAfter(files, futures[i].save_path, outcome)
         /\ papers' = PapersAfterDownload(papers,
                          download_pdf(futures[i].arxiv_link, outcome))
    /\ UNCHANGED <<pc, response, today_papers_list, idx, seen_ids, detail,
                   harvested, completed, data_file>>
    /\ UNCHANGED <<extractVars, sumVars>>

\* lines 130-136: one iteration of the loop over as_completed(futures)
Collect(i) ==
    /\ pc = "collect"
    /\ IsDone(futures[i])
    /\ ~Yielded(i, completed)
    /\ completed' = Append(completed, i)
    /\ LET r == futures[i].result IN
       IF r.raised
       THEN \* line 131: future.result() raises what the task raised
            /\ pc' = "crashed"
            /\ UNCHANGED papers
       ELSE IF r.success
       THEN UNCHANGED <<pc, papers>>
       ELSE /\ papers' = RemoveFailed(papers, r.link)
            /\ UNCHANGED pc
    /\ UNCHANGED <<response, today_papers_list, idx, seen_ids, detail, harvested,
                   futures, files, data_file>>
    /\ UNCHANGED <<extractVars, sumVars>>

\* the loop of line 130 is exhausted and the with block of line 128 is left:
\* executor.shutdown(wait=True)
Shutdown ==
    /\ pc = "collect"
    /\ \A i \in 1..Len(futures) : Yielded(i, completed)
    /\ \A i \in 1..Len(futures) : futures[i].state = "finished"
    /\ pc' = "persist"
    /\ UNCHANGED <<response, today_papers_list, idx, papers, seen_ids, detail,
                   harvested, futures, completed, files, data_file>>
    /\ UNCHANGED <<extractVars, sumVars>>

\* lines 138-147: json.dump(papers, f)
Persist ==
    /\ pc = "persist"
    /\ data_file' = [written |-> TRUE, content |-> papers]
    /\ pc' = "done"
    /\ UNCHANGED <<response, today_papers_list, idx, papers, seen_ids, detail,
                   harvested, futures, completed, files>>
    /\ UNCHANGED <<extractVars, sumVars>>

Next ==
    \/ FetchListing
    \/ ProcessEntry
    \/ EndHarvest
    \/ Submit
    \/ AsCompleted
    \/ \E i \in 1..Len(futures) : WorkerStart(i)
    \/ \E i \in 1..Len(futures) : WorkerFinish(i)
    \/ \E i \in 1..Len(futures) : Collect(i)
    \/ Shutdown
    \/ Persist

Spec == Init /\ [][Next]_vars

\* The worker threads run and every request returns or times out; the caller
\* thread runs.
FairSpec ==
    /\ Spec
    /\ WF_vars(FetchListing)
    /\ WF_vars(ProcessEntry)
    /\ WF_vars(EndHarvest)
    /\ WF_vars(Submit)
    /\ WF_vars(AsCompleted)
    /\ WF_vars(\E i \in 1..Len(futures) : WorkerStart(i))
    /\ WF_vars(\E i \in 1..Len(futures) : WorkerFinish(i))
    /\ WF_vars(\E i \in 1..Len(futures) : Collect(i))
    /\ WF_vars(Shutdown)
    /\ WF_vars(Persist)

(***************************************************************************)
(* Lines 100-105 on their own: re.search applied to a bounded link.        *)
(***************************************************************************)
\* The links tried: a head followed by at most MaxTail characters.
TailChars == {"1", ".", "t", "/"}
Tails == UNION {[1..n -> TailChars] : n \in 0..MaxTail}
Heads ==
    { <<>>,
      Prefix,
      <<"https://huggingface.co">> \o Prefix,
      SubSeq(Prefix, 1, Len(Prefix) - 1),
      Prefix \o <<"1">> \o Prefix,
      Prefix \o <<"2", ".", "2">> \o Prefix }
TestLinks == {h \o t : h \in Heads, t \in Tails}

ExtractInit ==
    /\ PullInit
    /\ SumIdle
    /\ test_link \in TestLinks
    /\ arxiv_id_match = [searched |-> FALSE, group |-> NoMatch]

\* lines 100-105
Search ==
    /\ ~arxiv_id_match.searched
    /\ arxiv_id_match' = [searched |-> TRUE, group |-> ExtractId(test_link)]
    /\ UNCHANGED <<test_link, pullVars, sumVars>>

ExtractNext == Search

ExtractSpec == ExtractInit /\ [][ExtractNext]_vars

(***************************************************************************)
(* summarize_papers.py, main (lines 100-138).  A paper of the listing is   *)
(* named by a number; the listing holds every paper once.                  *)
(***************************************************************************)
PaperIds == 1..MaxPapers
PaperLists ==
    {l \in UNION {[1..n -> PaperIds] : n \in 0..MaxPapers} :
        \A a, b \in 1..Len(l) : a # b => l[a] # l[b]}

\* one call of summarize_paper (lines 21-47) for the paper at position pos
Call(model_name, pos, raised) ==
    [ev |-> "call", model_name |-> model_name, pos |-> pos, raised |-> raised]
\* time.sleep(60), line 118
Sleep(pos) ==
    [ev |-> "sleep", model_name |-> "none", pos |-> pos, raised |-> FALSE]

\* line 119: the fallback runs when the try block of line 110 raised
FallbackNeeded_Always(raised) == TRUE
FallbackNeeded(raised) == raised

\* lines 117 and 128: {**paper, "summary": summary}
Summary(paper, model_name) == [paper |-> paper, model_name |-> model_name]

SumInit ==
    /\ PullInit
    /\ ExtractIdle
    /\ sum_pc = "load"
    /\ loaded_papers = <<>>
    /\ paper_i = 1
    /\ summaries = <<>>
    /\ api_log = <<>>
    /\ archive = [written |-> FALSE, content |-> <<>>]

\* lines 104-108: the listing of the day is read; open raises when
\* pull_hf_daily wrote none
Load ==
    /\ sum_pc = "load"
    /\ \E exists \in BOOLEAN :
         IF exists
         THEN /\ \E l \in PaperLists : loaded_papers' = l
              /\ sum_pc' = "loop"
         ELSE /\ sum_pc' = "crashed"
              /\ UNCHANGED loaded_papers
    /\ UNCHANGED <<paper_i, summaries, api_log, archive, pullVars, extractVars>>

\* lines 109-131: one iteration of the loop over the papers
SummarizeOne ==
    /\ sum_pc = "loop"
    /\ paper_i <= Len(loaded_papers)
    /\ \E pro_raised \in BOOLEAN, flash_raised \in BOOLEAN :
         LET paper == loaded_papers[paper_i]
             first == IF pro_raised
                      THEN <<Call("gemini-2.5-pro", paper_i, TRUE)>>
                      ELSE <<Call("gemini-2.5-pro", paper_i, FALSE),
                             Sleep(paper_i)>>
             got1  == IF pro_raised THEN <<>>
                      ELSE <<Summary(paper, "gemini-2.5-pro")>>
             second == IF FallbackNeeded(pro_raised)
                       THEN <<Call("gemini-2.5-flash", paper_i, flash_raised)>>
                       ELSE <<>>
             got2  == IF FallbackNeeded(pro_raised) /\ ~flash_raised
                      THEN <<Summary(paper, "gemini-2.5-flash")>>
                      ELSE <<>>
         IN  /\ api_log' = api_log \o first \o second
             /\ summaries' = summaries \o got1 \o got2
    /\ paper_i' = paper_i + 1
    /\ UNCHANGED <<sum_pc, loaded_papers, archive, pullVars, extractVars>>

\* line 133: update_readme(summaries) writes the archive file
UpdateReadme ==
    /\ sum_pc = "loop"
    /\ paper_i > Len(loaded_papers)
    /\ archive' = [written |-> TRUE, content |-> summaries]
    /\ sum_pc' = "cleanup"
    /\ UNCHANGED <<loaded_papers, paper_i, summaries, api_log, pullVars,
                   extractVars>>

\* lines 135-138: the temporary PDF files are removed
Cleanup ==
    /\ sum_pc = "cleanup"
    /\ sum_pc' = "done"
    /\ UNCHANGED <<loaded_papers, paper_i, summaries, api_log, archive,
                   pullVars, extractVars>>

SumNext ==
    \/ Load
    \/ SummarizeOne
    \/ UpdateReadme
    \/ Cleanup

SumSpec == SumInit /\ [][SumNext]_vars

(***************************************************************************)
(* Properties.                                                             *)
(***************************************************************************)
RECURSIVE IsSubseq(_, _)
\* a is b with some elements left out
IsSubseq(a, b) ==
    IF a = <<>> THEN TRUE
    ELSE IF b = <<>> THEN FALSE
    ELSE IF Head(a) = Head(b) THEN IsSubseq(Tail(a), Tail(b))
    ELSE IsSubseq(a, Tail(b))

\* how often future i was yielded to the caller
TimesObserved(i) == Cardinality({k \in 1..Len(completed) : completed[k] = i})

\* the identifier listing entry e yields (NoMatch if none)
IdOfEntry(e) ==
    IF today_papers_list[e].has_anchor
    THEN ExtractId(today_papers_list[e].href)
    ELSE NoMatch

\* the detail page of entry e was retrieved with status 200
Retrieved(e) == e \in Requested /\ ~detail[e].raised /\ detail[e].status = 200
\* ... and held both the title heading and the abstract paragraph
DetailSucceeded(e) ==
    Retrieved(e) /\ detail[e].has_title /\ detail[e].has_abstract

Failed(i) == futures[i].state = "finished" /\ ~futures[i].result.success
Succeeded(i) == futures[i].state = "finished" /\ futures[i].result.success

ListingUnavailable ==
    response # NoResponse /\ ~response.raised /\ response.status # 200

\* C1: once the downloads are submitted, the working list, and the list that
\* is written, is a subsequence of the harvested list: the survivors keep
\* their discovery order and none is duplicated, whatever the order in which
\* the tasks complete.
C1_SurvivorsSubsequence ==
    /\ pc \in {"submit", "collect", "persist", "done"}
          => IsSubseq(papers, harvested)
    /\ data_file.written => IsSubseq(data_file.content, harvested)

\* C1 witness: three records harvested, the tasks were observed in the
\* reverse of the submission order, the first one failed, and the other two
\* were written in discovery order.
C1_Witness ==
    /\ pc = "done"
    /\ Len(harvested) = 3
    /\ completed = <<3, 2, 1>>
    /\ Failed(1)
    /\ data_file.content = <<harvested[2], harvested[3]>>

\* C2: no record of the written listing has a download task that reported
\* failure; every record of it has a task that reported success.
C2_PersistedOnlySuccessful ==
    data_file.written =>
        \A k \in 1..Len(data_file.content) :
            /\ \E i \in 1..Len(futures) :
                  /\ futures[i].arxiv_link = data_file.content[k].arxiv_link
                  /\ Succeeded(i)
            /\ ~\E i \in 1..Len(futures) :
                  /\ futures[i].arxiv_link = data_file.content[k].arxiv_link
                  /\ Failed(i)

\* C2 witness: a listing was written after one download failed and another
\* one, observed before it, succeeded.
C2_Witness ==
    /\ data_file.written
    /\ Len(data_file.content) = 1
    /\ Len(completed) = 2
    /\ Succeeded(completed[1])
    /\ Failed(completed[2])

\* C3 as stated: after the harvest, an identifier that several entries yield
\* has exactly one record, and it is the record of the first of these
\* entries.
C3_FirstEntryWins ==
    pc = "submit" =>
        \A e1, e2 \in 1..Len(today_papers_list) :
            (e1 < e2 /\ IdOfEntry(e1) # NoMatch /\ IdOfEntry(e1) = IdOfEntry(e2)
                /\ \A e \in 1..(e1 - 1) : IdOfEntry(e) # IdOfEntry(e1))
            => /\ \E k \in 1..Len(harvested) : harvested[k].entry = e1
               /\ \A k \in 1..Len(harvested) :
                     harvested[k].arxiv_id = IdOfEntry(e1)
                         => harvested[k].entry = e1

\* the entries scanned so far that yield id and whose detail page was
\* retrieved and parsed
Candidates(id) ==
    {e \in 1..Len(today_papers_list) :
        e < idx /\ IdOfEntry(e) = id /\ DetailSucceeded(e)}

\* C3 (amended): the identifiers of the records are pairwise distinct in
\* every state; while and after the listing is scanned, an identifier has a
\* record exactly if some scanned entry yielding it had its detail page
\* retrieved and parsed, and the record is that of the first such entry.
C3_FirstRetrievedEntryWins ==
    /\ \A k, m \in 1..Len(papers) :
          k # m => papers[k].arxiv_id # papers[m].arxiv_id
    /\ pc \in {"harvest", "submit"} =>
          /\ \A k \in 1..Len(papers) :
                /\ Candidates(papers[k].arxiv_id) # {}
                /\ \A e \in Candidates(papers[k].arxiv_id) : papers[k].entry <= e
                /\ papers[k].entry \in Candidates(papers[k].arxiv_id)
          /\ \A e \in 1..Len(today_papers_list) :
                (e < idx /\ IdOfEntry(e) # NoMatch /\ DetailSucceeded(e))
                    => \E k \in 1..Len(papers) :
                          papers[k].arxiv_id = IdOfEntry(e)

\* C3 witness: three entries yield the same identifier, the detail request
\* of the first one failed, and the only record is that of the second.
C3_Witness ==
    /\ pc = "submit"
    /\ Len(today_papers_list) = 3
    /\ IdOfEntry(1) # NoMatch
    /\ IdOfEntry(1) = IdOfEntry(2)
    /\ IdOfEntry(2) = IdOfEntry(3)
    /\ ~Retrieved(1)
    /\ DetailSucceeded(2)
    /\ DetailSucceeded(3)
    /\ Len(papers) = 1
    /\ papers[1].entry = 2

\* C4 as stated: the caller removes a record only when every submitted task
\* has completed.
C4_BarrierThenFilter ==
    [][(pc = "collect" /\ papers' # papers)
          => \A i \in 1..Len(futures) : futures[i].state = "finished"]_vars

\* C4 (amended): the caller removes a record only after that record's own
\* task has completed and reported failure (other tasks may still run), and
\* the listing is written only after every submitted task has completed.
C4_FilterAfterOwnTask ==
    [][/\ pc = "collect" =>
            \A k \in 1..Len(papers) :
                (\A m \in 1..Len(papers') : papers'[m] # papers[k])
                    => \E i \in 1..Len(futures) :
                          /\ futures[i].arxiv_link = papers[k].arxiv_link
                          /\ Failed(i)
       /\ pc' = "persist" =>
            \A i \in 1..Len(futures) : futures[i].state = "finished"
      ]_vars

\* C4 witness: a record has been removed while another task is still running.
C4_Witness ==
    /\ pc = "collect"
    /\ Len(papers) < Len(harvested)
    /\ Running(futures) # {}

\* C5: never more than MaxWorkers download tasks run at once.
C5_InFlightBounded == Cardinality(Running(futures)) <= MaxWorkers

\* C5 witness: more tasks submitted than workers, all workers busy and a
\* task waiting in the queue.
C5_Witness ==
    /\ Len(futures) > MaxWorkers
    /\ Cardinality(Running(futures)) = MaxWorkers
    /\ \E i \in 1..Len(futures) : futures[i].state = "pending"

\* C6: no task's result is observed twice, and once the downloads are being
\* submitted the run reaches the end of persistence with every submitted
\* task completed and its result observed exactly once.
C6_AllTasksObservedOnce ==
    /\ [](\A i \in 1..Len(futures) : TimesObserved(i) <= 1)
    /\ (pc = "submit") ~>
          (/\ pc = "done"
           /\ data_file.written
           /\ Len(futures) = Len(harvested)
           /\ \A i \in 1..Len(futures) :
                 futures[i].state = "finished" /\ TimesObserved(i) = 1)

\* C6 witness: three tasks were submitted, all completed, each observed
\* once, and the listing is written.
C6_Witness ==
    /\ pc = "done"
    /\ Len(futures) = 3
    /\ Len(futures) > MaxWorkers
    /\ \A i \in 1..Len(futures) : TimesObserved(i) = 1
    /\ \E i \in 1..Len(futures) : Failed(i)

\* C7: when the listing request returned a non-success status, there is no
\* record, no detail page was requested and no download task was submitted,
\* in every state of the run.
C7_NoListingNoWork ==
    ListingUnavailable =>
        /\ today_papers_list = <<>>
        /\ papers = <<>>
        /\ harvested = <<>>
        /\ Requested = {}
        /\ futures = <<>>

\* C7 witness: the listing request returned 500 and the run has returned.
C7_Witness ==
    /\ response = Response(500)
    /\ pc = "returned"
    /\ futures = <<>>

\* C8 as stated: when the listing is unavailable the run ends with no
\* document file written and an empty list in the dated output file.
C8_EmptyListingWritten ==
    (ListingUnavailable /\ pc \in {"returned", "done"}) =>
        /\ files = {}
        /\ data_file = [written |-> TRUE, content |-> <<>>]

\* C8 (amended): when the listing is unavailable the run returns at once:
\* no document file is written and the dated output file is not written at
\* all.
C8_NothingWritten ==
    ListingUnavailable =>
        /\ pc = "returned"
        /\ files = {}
        /\ ~data_file.written

\* C8 witness: the run has returned on a 500 with nothing written.
C8_Witness ==
    /\ response = Response(500)
    /\ pc = "returned"
    /\ ~data_file.written
    /\ files = {}

\* C9 as stated: no detail page is requested for an entry whose identifier
\* is already in the seen-set, that is, whose identifier has a record from
\* an earlier entry.
C9_DedupBeforeFetch ==
    \A e \in Requested :
        ~\E k \in 1..Len(papers) :
            /\ papers[k].arxiv_id = IdOfEntry(e)
            /\ papers[k].entry < e

\* C9 (amended): the detail page is requested for every entry the scan
\* reaches, before the duplicate test: the requested entries are exactly the
\* scanned ones, also those whose identifier is already in the seen-set,
\* and such an entry adds no record.
C9_FetchBeforeDedup ==
    /\ pc = "harvest" => Requested = 1..(idx - 1)
    /\ pc \in {"submit", "collect", "persist", "done"}
          => Requested = 1..Len(today_papers_list)
    /\ \A k \in 1..Len(papers) :
          \A e \in 1..(papers[k].entry - 1) :
              ~(IdOfEntry(e) = papers[k].arxiv_id /\ DetailSucceeded(e))

\* C9 witness: the listing /papers/2401.00001, /papers/2401.00002,
\* /papers/2401.00001: three detail requests were made, two records created.
C9_Witness ==
    /\ pc = "submit"
    /\ today_papers_list = <<Article(LinkA), Article(LinkB), Article(LinkA)>>
    /\ Requested = {1, 2, 3}
    /\ Len(harvested) = 2
    /\ harvested[1].entry = 1
    /\ harvested[2].entry = 2

\* C10: an entry whose detail page was retrieved with status 200 but lacks
\* the title heading or the abstract paragraph is skipped: the run goes on
\* to the next entry and does not abort on it.
C10_ParseErrorSkipsEntry ==
    \A e \in Requested :
        (Retrieved(e) /\ ~DetailSucceeded(e)) => (pc # "crashed" /\ idx > e)

\* C11: an entry whose detail request returns a non-success status adds no
\* record, leaves the seen-set as it is, and the scan goes on to the next
\* entry.
C11_FailedDetailSkipsEntry ==
    [][(/\ pc = "harvest"
        /\ idx \notin Requested
        /\ idx \in DOMAIN detail'
        /\ ~detail'[idx].raised
        /\ detail'[idx].status # 200)
       => (/\ papers' = papers
           /\ seen_ids' = seen_ids
           /\ idx' = idx + 1
           /\ pc' = "harvest")]_vars

\* C11 witness: the detail request of the first entry returned 404 and the
\* second entry made the only record.
C11_Witness ==
    /\ pc = "submit"
    /\ Len(today_papers_list) = 2
    /\ ~detail[1].raised
    /\ detail[1].status = 404
    /\ Len(papers) = 1
    /\ papers[1].entry = 2
    /\ seen_ids = {papers[1].arxiv_id}

\* C12: an entry whose link yields no identifier, and whose detail request
\* returned a page (whatever its status and content), makes no record and
\* the scan goes on past it.
C12_NoIdEntrySkipped ==
    \A e \in Requested :
        (IdOfEntry(e) = NoMatch /\ ~detail[e].raised)
            => /\ idx > e
               /\ \A k \in 1..Len(papers) : papers[k].entry # e

\* C13: a finished task always holds a result (its own link, a boolean) and
\* never an exception, every outcome but "ok" gives (link, False), the run
\* never aborts once tasks are submitted, and the listing is written only
\* after every task finished and was observed.
C13_FailuresReportedAsFalse ==
    /\ \A i \in 1..Len(futures) :
          /\ futures[i].state = "finished" =>
                /\ ~futures[i].result.raised
                /\ futures[i].result.link = futures[i].arxiv_link
          /\ \A o \in DownloadOutcomes \ {"ok"} :
                download_pdf(futures[i].arxiv_link, o) =
                    [raised |-> FALSE, link |-> futures[i].arxiv_link,
                     success |-> FALSE]
    /\ pc = "crashed" => futures = <<>>
    /\ pc \in {"persist", "done"} =>
          \A i \in 1..Len(futures) :
              futures[i].state = "finished" /\ Yielded(i, completed)

\* C13 witness: the run is done, the first task observed had failed, leaving
\* a file behind, and a task observed after it succeeded.
C13_Witness ==
    /\ pc = "done"
    /\ Len(completed) = 2
    /\ Failed(completed[1])
    /\ futures[completed[1]].save_path \in files
    /\ Succeeded(completed[2])

\* C14: one task is submitted per harvested record, in order, for pairwise
\* distinct document links; a task makes at most one request, and exactly
\* one once it has started; a failed task is not run again.
C14_OneRequestPerRecord ==
    /\ Len(futures) <= Len(harvested)
    /\ \A i \in 1..Len(futures) :
          /\ futures[i].arxiv_link = harvested[i].arxiv_link
          /\ futures[i].attempts = IF futures[i].state = "pending" THEN 0 ELSE 1
          /\ \A j \in 1..Len(futures) :
                i # j => futures[i].arxiv_link # futures[j].arxiv_link
    /\ pc \in {"collect", "persist", "done"} => Len(futures) = Len(harvested)

\* C14 witness: three records, three tasks, each requested once, one failed
\* and its record is dropped.
C14_Witness ==
    /\ pc = "persist"
    /\ Len(harvested) = 3
    /\ \A i \in 1..3 : futures[i].attempts = 1
    /\ Failed(3)
    /\ Len(papers) = 2

\* C15: the list of records changes only in a step of the caller thread (the
\* scan or the collection of a result), and no worker changes anything in
\* that step; a worker step leaves the list as it is.
C15_OnlyCallerWritesPapers ==
    [][papers' # papers =>
          /\ pc \in {"harvest", "collect"}
          /\ futures' = futures
          /\ files' = files]_vars

\* C15 witness: the caller has removed a record while a worker is busy with
\* another task and a third task is still queued.
C15_Witness ==
    /\ pc = "collect"
    /\ Len(papers) < Len(harvested)
    /\ Cardinality(Running(futures)) = 1
    /\ \E i \in 1..Len(futures) : futures[i].state = "pending"

IdsOf(ps) == {ps[k].arxiv_id : k \in 1..Len(ps)}

\* C17: during the scan the seen-set is the set of the identifiers of the
\* records; it grows only by a novel identifier, together with the record of
\* the current entry, whose detail page was retrieved and parsed; a step that
\* adds no record leaves it unchanged, and it never changes after the scan.
C17_SeenSetMatchesRecords ==
    [][/\ pc' \in {"harvest", "submit"} => seen_ids' = IdsOf(papers')
       /\ seen_ids' # seen_ids =>
             /\ pc = "harvest"
             /\ Len(papers') = Len(papers) + 1
             /\ SubSeq(papers', 1, Len(papers)) = papers
             /\ LET new == papers'[Len(papers')] IN
                   /\ new.arxiv_id \notin seen_ids
                   /\ seen_ids' = seen_ids \cup {new.arxiv_id}
                   /\ new.entry = idx
                   /\ new.arxiv_id = IdOfEntry(idx)
                   /\ idx \in DOMAIN detail'
                   /\ ~detail'[idx].raised
                   /\ detail'[idx].status = 200
       /\ (pc = "harvest" /\ papers' # papers) => seen_ids' # seen_ids
      ]_vars

\* C17 witness: the scan is past an entry without identifier, an entry that
\* made a record and a duplicate of it; the seen-set holds the one identifier.
C17_Witness ==
    /\ pc = "harvest"
    /\ idx = 4
    /\ IdOfEntry(1) = NoMatch
    /\ DetailSucceeded(1)
    /\ IdOfEntry(2) = IdOfEntry(3)
    /\ DetailSucceeded(3)
    /\ Len(papers) = 1
    /\ papers[1].entry = 2
    /\ seen_ids = {IdOfEntry(2)}

\* C18: the document links of the harvested records are pairwise distinct,
\* and every harvested record whose task reported success is in the written
\* listing.
C18_SuccessfulRecordsPersisted ==
    /\ \A k, m \in 1..Len(harvested) :
          k # m => harvested[k].arxiv_link # harvested[m].arxiv_link
    /\ data_file.written =>
          \A k \in 1..Len(harvested) :
              (\E i \in 1..Len(futures) :
                  /\ futures[i].arxiv_link = harvested[k].arxiv_link
                  /\ Succeeded(i))
              => \E m \in 1..Len(data_file.content) :
                    data_file.content[m] = harvested[k]

\* C18 witness: the failure of the second of three records was observed
\* first; the first and the third record are written.
C18_Witness ==
    /\ data_file.written
    /\ Len(harvested) = 3
    /\ completed[1] = 2
    /\ Failed(2)
    /\ data_file.content = <<harvested[1], harvested[3]>>

IsDigits(r) == Len(r) >= 1 /\ \A k \in 1..Len(r) : r[k] \in Digits

\* r reads digits.digits
IsDottedNumber(r) ==
    \E k \in 1..Len(r) :
        /\ r[k] = "."
        /\ IsDigits(SubSeq(r, 1, k - 1))
        /\ IsDigits(SubSeq(r, k + 1, Len(r)))

\* <<i, n>>: "/papers/" stands at i and the n characters after it read
\* digits.digits
Occurrences(s) ==
    {o \in (1..Len(s)) \X (1..Len(s)) :
        /\ o[1] + Len(Prefix) + o[2] - 1 <= Len(s)
        /\ SubSeq(s, o[1], o[1] + Len(Prefix) - 1) = Prefix
        /\ IsDottedNumber(SubSeq(s, o[1] + Len(Prefix),
                                 o[1] + Len(Prefix) + o[2] - 1))}

\* the whole digits.digits of the leftmost occurrence
FirstOccurrence(s) ==
    LET o == CHOOSE x \in Occurrences(s) :
                 \A y \in Occurrences(s) :
                     x[1] < y[1] \/ (x[1] = y[1] /\ x[2] >= y[2])
    IN  SubSeq(s, o[1] + Len(Prefix), o[1] + Len(Prefix) + o[2] - 1)

\* C16: for a link in which digits.digits stands right after "/papers/", the
\* extraction returns the whole digits.digits of the first such place; for
\* any other link it finds nothing.
C16_ExtractsFirstDottedNumber ==
    arxiv_id_match.searched =>
        arxiv_id_match.group =
            IF Occurrences(test_link) = {} THEN NoMatch
            ELSE FirstOccurrence(test_link)

\* C16 witness: /papers/2.2/papers/11.1 was searched and gave 2.2.
C16_Witness ==
    /\ arxiv_id_match.searched
    /\ test_link = Prefix \o <<"2", ".", "2">> \o Prefix \o <<"1", "1", ".", "1">>
    /\ arxiv_id_match.group = <<"2", ".", "2">>

\* the places of api_log that hold a call of model_name for position pos
CallsOf(model_name, pos) ==
    {k \in 1..Len(api_log) :
        /\ api_log[k].ev = "call"
        /\ api_log[k].model_name = model_name
        /\ api_log[k].pos = pos}

\* the entries of summaries for the paper at position pos
SummariesOf(pos) ==
    {k \in 1..Len(summaries) : summaries[k].paper = loaded_papers[pos]}

\* the papers of the summaries, in order
SummarizedPapers == [k \in 1..Len(summaries) |-> summaries[k].paper]

\* C19: the papers are taken in listing order; for a paper that was
\* processed the primary model was called once, the fallback model once if
\* the primary call raised and not at all otherwise, and the paper has one
\* summary unless both calls raised, in which case it has none; a paper not
\* yet processed has no call and no summary; the summaries are a subsequence
\* of the listing.
C19_PrimaryThenFallback ==
    /\ \A pos \in 1..Len(loaded_papers) :
          IF pos < paper_i
          THEN /\ Cardinality(CallsOf("gemini-2.5-pro", pos)) = 1
               /\ LET pro == api_log[CHOOSE k \in CallsOf("gemini-2.5-pro", pos) : TRUE]
                  IN  /\ Cardinality(CallsOf("gemini-2.5-flash", pos)) =
                            IF pro.raised THEN 1 ELSE 0
                      /\ Cardinality(SummariesOf(pos)) =
                            IF /\ pro.raised
                               /\ \A k \in CallsOf("gemini-2.5-flash", pos) :
                                     api_log[k].raised
                            THEN 0 ELSE 1
          ELSE /\ CallsOf("gemini-2.5-pro", pos) = {}
               /\ CallsOf("gemini-2.5-flash", pos) = {}
               /\ SummariesOf(pos) = {}
    /\ \A k \in 1..(Len(api_log) - 1) : api_log[k].pos <= api_log[k + 1].pos
    /\ IsSubseq(SummarizedPapers, loaded_papers)
    /\ archive.written => archive.content = summaries

\* C19 witness: three papers were processed; the first was summarized by the
\* primary model, the second by the fallback, the third by neither, and the
\* two summaries are written.
C19_Witness ==
    /\ sum_pc = "done"
    /\ Len(loaded_papers) = 3
    /\ archive.content =
          <<Summary(loaded_papers[1], "gemini-2.5-pro"),
            Summary(loaded_papers[2], "gemini-2.5-flash")>>
    /\ Cardinality(CallsOf("gemini-2.5-flash", 3)) = 1

\* C20: a call of the generative API is never followed by another call
\* without a sleep between the two.
C20_SleepBetweenCalls ==
    \A k \in 1..(Len(api_log) - 1) :
        api_log[k].ev = "call" => api_log[k + 1].ev = "sleep"
====
